---- MODULE Spec2Model ----
(***************************************************************************)
(* State-machine model of the in-page save coordination object PageSaving  *)
(* (src/src/common/inject/pageSaving.js) and of the ZoteroFrame            *)
(* constructor (src/scripts/chrome/build_zip).                             *)
(*                                                                         *)
(* Every async function is cut at its awaits: one action runs the code     *)
(* from one await to the next, so everything the JavaScript event loop can *)
(* interleave is interleaved here.  External collaborators (the            *)
(* translation engine, the connector, the background page) are the         *)
(* nondeterministic outcomes of the awaits.                                *)
(***************************************************************************)
EXTENDS Integers, Sequences, FiniteSets, TLC

\* ---------------------------------------------------------------- bounds
\* Number of save invocations (onTranslate / onSaveAsWebpage / saveAsWebpage
\* calls) one behaviour makes.
MaxProcs == 2
\* Number of onPageLoad calls that may be awaiting detection at once.
MaxDetect == 1
\* Number of ZoteroFrame constructions one behaviour makes.
MaxFrames == 2
\* How far the clock runs, in units of 100 ms.
MaxClock == 6

Procs == 1..MaxProcs
Frames == 1..MaxFrames

\* ------------------------------------------------------------ vocabulary
Undef == "undefined"
AboutBlank == "about:blank"
URLs == {"u1", "u2"}

\* SITE_ACCESS_LIMIT_TRANSLATORS: the Google Scholar translator.
SITE_ACCESS_LIMIT_TRANSLATORS == {"57a00950-f0d1-4b41-b6ba-44ff0fc30289"}

\* Translator descriptors the detection engine can report.  GS is Google
\* Scholar (search results: itemType 'multiple'), T1 a single-item translator.
T1 == [translatorID |-> "T1", itemType |-> "journalArticle"]
GS == [translatorID |-> "57a00950-f0d1-4b41-b6ba-44ff0fc30289", itemType |-> "multiple"]
TranslatorIDs == {T1.translatorID, GS.translatorID}
\* The lists TranslateWeb.detect can return.
DetectResults == {<<>>, <<GS, T1>>}
\* How _initTranslate and TranslateWeb.detect settle: a list, or an exception.
DetectOutcomes ==
    {[threw |-> FALSE, list |-> ts] : ts \in DetectResults}
        \cup {[threw |-> TRUE, list |-> <<>>]}

\* The document the script is injected into: browser flags, content type
\* and the initial location.
Environments ==
    { \* a page in a Chromium tab
      [isSafari |-> FALSE, isTopWindow |-> TRUE,  isChromium |-> TRUE,
       contentType |-> "text/html", href |-> "u1"],
      \* a PDF in a frame, in Safari
      [isSafari |-> TRUE,  isTopWindow |-> FALSE, isChromium |-> FALSE,
       contentType |-> "application/pdf", href |-> "u1"],
      \* an about:blank frame
      [isSafari |-> FALSE, isTopWindow |-> FALSE, isChromium |-> TRUE,
       contentType |-> "text/html", href |-> AboutBlank] }

\* options of onTranslate / onSaveAsWebpage.  note and resave are kept by
\* their truthiness; snapshot is undefined, true or false.
Snapshots == {Undef, "true", "false"}
NoOptions == [note |-> FALSE, resave |-> FALSE, fallbackOnFailure |-> FALSE, snapshot |-> Undef]
\* The options objects the entry points are called with.
TranslateOptions ==
    { NoOptions,
      [NoOptions EXCEPT !.note = TRUE],
      [NoOptions EXCEPT !.resave = TRUE],
      [NoOptions EXCEPT !.fallbackOnFailure = TRUE] }
WebpageOptions ==
    { NoOptions,
      [NoOptions EXCEPT !.snapshot = "true"],
      [NoOptions EXCEPT !.snapshot = "false"],
      [NoOptions EXCEPT !.snapshot = "true", !.resave = TRUE],
      [NoOptions EXCEPT !.snapshot = "true", !.note = TRUE] }

\* Errors an awaited call can reject with.
\*   translation: the status code that e.toString() carries, if any
TranslateErrors == {"403", "429", "other"}
\*   connector: status 0 (client unavailable), another status, or another
\*   status whose value has libraryEditable = false
ConnectorErrors == {"status0", "unexpected", "notEditable"}
\* Results of saveSnapshot / saveSingleFile: null, one asking for SingleFile,
\* one listing an attachment.
ConnectorResults == {"null", "saveSingleFile", "attachments"}
\* Results of the server save itemSaver.saveAsWebpage().
ServerSaveOutcomes == {"items", "noItems", "throws"}
\* How getSelectedCollection settles: a response, one whose libraryEditable
\* is false, or an exception.
SelectedCollectionResponses == {"editable", "notEditable", "throws"}
\* What the Select Items dialog returns: a non-empty selection, an empty
\* one, or nothing (cancelled).
SelectDialogResults == {"some", "empty", "cancelled"}

\* ----------------------------------------------------------------- state
VARIABLES
    sessionDetails,  \* PageSaving.sessionDetails
    translators,     \* PageSaving.translators
    href,            \* document.location.href
    env,             \* the document and browser (fixed)
    nextId,          \* the next value of Zotero.Utilities.randomString()
    detecting,       \* onPageLoad calls awaiting _initTranslate / detect: how
                     \* many were called with force, how many without
    proc,            \* per save invocation: the await it is suspended at and its locals
    timers,          \* session ids whose setTimeout(show) callback is pending
    sent,            \* the messages the last step sent, in order
    step,            \* the last step taken, with the locals of the invocation that took it
    okWebpage,       \* history: the options and url of the onSaveAsWebpage that
                     \* last completed successfully, with nothing done since
    okTranslate,     \* history: the arguments, url and session id of the
                     \* onTranslate that last completed successfully, with
                     \* nothing done to the session or the page since
    pageSession,     \* history: the id of the session of the save action started
                     \* last since the page was loaded (0: none was)
    frames,          \* per ZoteroFrame construction: its state
    clock,           \* the time, in units of 100 ms
    due              \* when the pending timers expire: due.show[s] for the
                     \* setTimeout(show) of session s, due.report[p] for the
                     \* Zotero.Promise.delay(500) of invocation p (0: not pending)

vars == <<sessionDetails, translators, href, env, nextId, detecting, proc, timers,
          sent, step, okWebpage, okTranslate, pageSession, frames, clock, due>>

\* sessionDetails = {} : every property undefined (id 0 stands for undefined,
\* saveOptions is <<>> when undefined and <<options>> otherwise).
EmptySession == [id |-> 0, url |-> Undef, translatorID |-> Undef, saveOptions |-> <<>>]

\* A message handed to Zotero.Messaging.sendMessage: its name, the session id
\* it carries (0: none), and what else of its arguments the model keeps.
Msg(name, sessionID, info) ==
    [name |-> name, sid |-> sessionID, info |-> info, list |-> <<>>]
\* A call to Zotero.Connector_Browser carrying a translator list.
Call(name, list) == [name |-> name, sid |-> 0, info |-> "", list |-> list]

\* callback(returnItems): the selection handed back to the translator.
Callback(returnItems) ==
    [name |-> "onSelect callback", sid |-> 0, info |-> returnItems, list |-> <<>>]

NoTranslator == [translatorID |-> Undef, itemType |-> Undef]
\* One invocation of an async entry point: where it is suspended (pc), the
\* entry point (kind), its arguments, and its local variables.  dones counts
\* the progressWindow.done messages it has sent, started tells that it called
\* _initSession.  An invocation that has settled has no locals left; how its
\* promise settled (resolved or rejected) is in `step`.
IdleProc ==
    [pc |-> "idle", kind |-> "none", translatorID |-> Undef, options |-> NoOptions,
     sid |-> 0, snap |-> FALSE, tr |-> NoTranslator, err |-> "none",
     dones |-> 0, started |-> FALSE]
IsSettled(r) == r.pc \in {"resolved", "rejected"}

\* One `new ZoteroFrame(attributes, style, messagingOptions)`: how the
\* constructor ended (state), whether it created its iframe, the state of
\* initializedPromise, the message listener _initMessaging installed ("none",
\* "window": the default one on window's message event, "given":
\* messagingOptions.addMessageListener), whether the iframe is in the document
\* and carries the attributes it was given.  History: the arguments of the
\* constructor (src, messaging) and whether a 'frameReady' message of the
\* frame has arrived (received).
NewFrame == [state |-> "unconstructed", iframe |-> FALSE, promise |-> "none",
             listener |-> "none", inBody |-> FALSE, attrs |-> FALSE,
             src |-> FALSE, messaging |-> "undefined", received |-> FALSE]
\* The messagingOptions a frame is constructed with.
MessagingOptions == {Undef, "sendMessage only", "with addMessageListener"}
MessageNames == {"frameReady", "other"}

Init ==
    /\ sessionDetails = EmptySession
    /\ translators = <<>>
    /\ env \in Environments
    /\ href = env.href
    /\ nextId = 1
    /\ detecting = [forced |-> 0, plain |-> 0]
    /\ proc = [p \in Procs |-> IdleProc]
    /\ timers = {}
    /\ sent = <<>>
    /\ step = [op |-> "init", p |-> 0, was |-> IdleProc]
    /\ okWebpage = <<>>
    /\ okTranslate = <<>>
    /\ pageSession = 0
    /\ frames = [f \in Frames |-> NewFrame]
    /\ clock = 0
    /\ due = [show |-> [s \in Procs |-> 0], report |-> [p \in Procs |-> 0]]

\* A step of the page (no save invocation takes it).
PageStep(op) ==
    /\ step' = [op |-> op, p |-> 0, was |-> IdleProc]

\* -------------------------------------------------------------- onPageLoad
\* history.pushState / replaceState: the location changes, the script stays.
HistoryPush(u) ==
    /\ href # AboutBlank
    /\ u \in URLs \ {href}
    /\ href' = u
    /\ sent' = <<>>
    /\ PageStep("historyPush")
    /\ okWebpage' = <<>>
    /\ okTranslate' = <<>>
    /\ UNCHANGED <<sessionDetails, translators, env, nextId, detecting, proc, timers,
                   pageSession, frames, clock, due>>

\* A faulty UseCachedTranslators: force is ignored.
UseCachedTranslatorsAlways(force) == Len(translators) > 0

\* if (this.translators.length) { if (force) ... else return }
UseCachedTranslators(force) == Len(translators) > 0 /\ ~force

\* The onPageLoad calls that are suspended at an await.
Detecting == detecting.forced + detecting.plain

\* onPageLoad(force) up to its first await (or its return).
OnPageLoad(force) ==
    /\ sent' = <<>>
    /\ PageStep(IF force THEN "onPageLoad.force" ELSE "onPageLoad")
    /\ okWebpage' = <<>>
    /\ okTranslate' = <<>>
    /\ IF href = AboutBlank
         THEN UNCHANGED <<sessionDetails, translators, detecting, pageSession>>
         ELSE /\ sessionDetails' = EmptySession
              /\ pageSession' = 0
              /\ IF UseCachedTranslators(force)
                   THEN UNCHANGED <<translators, detecting>>
                   ELSE /\ Detecting < MaxDetect
                        /\ translators' = <<>>
                        /\ detecting' = IF force
                                          THEN [detecting EXCEPT !.forced = @ + 1]
                                          ELSE [detecting EXCEPT !.plain = @ + 1]
    /\ UNCHANGED <<href, env, nextId, proc, timers, frames, clock, due>>

\* The rest of an onPageLoad(force): _initTranslate and TranslateWeb.detect
\* have settled.  outcome is the detected list or an exception.
DetectDone(force, outcome) ==
    /\ IF force
         THEN /\ detecting.forced > 0
              /\ detecting' = [detecting EXCEPT !.forced = @ - 1]
         ELSE /\ detecting.plain > 0
              /\ detecting' = [detecting EXCEPT !.plain = @ - 1]
    /\ IF outcome.threw
         THEN /\ sent' = <<>>
              /\ PageStep("onPageLoad.threw")
              /\ UNCHANGED translators
         ELSE IF Len(outcome.list) = 0 /\ env.isSafari /\ ~env.isTopWindow
                 /\ env.contentType = "application/pdf"
           THEN /\ sent' = <<Call("Connector_Browser.onPDFFrame", <<>>)>>
                /\ PageStep("onPageLoad.pdfFrame")
                /\ UNCHANGED translators
           ELSE /\ translators' = outcome.list
                /\ sent' = <<Call("Connector_Browser.onTranslators", outcome.list)>>
                /\ PageStep("onPageLoad.detected")
    /\ UNCHANGED <<sessionDetails, href, env, nextId, proc, timers, okWebpage,
                   okTranslate, pageSession, frames, clock, due>>

\* ------------------------------------------------------------- sessions
\* _initSession(translatorID, saveOptions): the session it stores; its id is
\* nextId.
InitSession(translatorID, saveOptions) ==
    [id |-> nextId, url |-> href, translatorID |-> translatorID,
     saveOptions |-> <<saveOptions>>]

\* A faulty ShouldReopenProgressWindow: the location is not compared.
ShouldReopenIgnoringUrl(translatorID, options, itemType) ==
    /\ sessionDetails.id # 0
    /\ translatorID = sessionDetails.translatorID
    /\ itemType # "multiple"
    /\ ~options.note
    /\ ~options.resave

\* _shouldReopenProgressWindow(translatorID, options, itemType)
ShouldReopenProgressWindow(translatorID, options, itemType) ==
    /\ sessionDetails.id # 0
    /\ href = sessionDetails.url
    /\ translatorID = sessionDetails.translatorID
    /\ itemType # "multiple"
    /\ ~options.note
    /\ ~options.resave

\* this.translators.findIndex(t => t.translatorID === translatorID), counted
\* from 1; 0 when there is none (JavaScript's -1).
FindIndex(translatorID) ==
    LET hits == {i \in 1..Len(translators) : translators[i].translatorID = translatorID}
    IN  IF hits = {} THEN 0 ELSE CHOOSE i \in hits : \A j \in hits : i <= j

\* 'webpage' + (x ? 'WithSnapshot' : '')
WebpageTranslatorID(withSnapshot) ==
    IF withSnapshot THEN "webpageWithSnapshot" ELSE "webpage"

\* ------------------------------------------------------------ code segments
\* What the code between two awaits of an invocation does: the branch taken
\* (op), the invocation's locals afterwards (r), this.sessionDetails
\* afterwards (sd), the messages sent in order, whether _initSession ran
\* (init) and whether setTimeout was called for r.sid (timer).
Eff(op, r, sd, msgs) ==
    [op |-> op, r |-> r, sd |-> sd, sent |-> msgs, init |-> FALSE, timer |-> FALSE]

\* A faulty ShowDelay: the show for a 'multiple' translator waits 600 ms.
ShowDelaySlow(translator) == IF translator.itemType = "multiple" THEN 6 ELSE 0

\* let delay = translator.itemType == 'multiple' ? 100 : 0
ShowDelay(translator) == IF translator.itemType = "multiple" THEN 1 ELSE 0
\* await Zotero.Promise.delay(500)
ReportDelay == 5

\* One step of invocation p with effect e.
Apply(p, e) ==
    /\ proc' = [proc EXCEPT ![p] = IF IsSettled(e.r)
                                     THEN [IdleProc EXCEPT !.pc = "settled"]
                                     ELSE e.r]
    /\ sessionDetails' = e.sd
    /\ sent' = e.sent
    /\ step' = [op |-> e.op, p |-> p, was |-> e.r]
    /\ nextId' = IF e.init THEN nextId + 1 ELSE nextId
    /\ timers' = IF e.timer THEN timers \cup {e.r.sid} ELSE timers
    /\ okWebpage' =
         IF e.op \in {"saveAsWebpage.done", "saveAsWebpage.serverDone"}
              /\ e.r.kind = "onSaveAsWebpage" /\ e.sd.id = e.r.sid
           THEN <<[options |-> e.r.options, url |-> href]>>
           ELSE IF e.sd = sessionDetails THEN okWebpage ELSE <<>>
    /\ okTranslate' =
         IF e.op \in {"onTranslate.done", "saveAsWebpage.done", "saveAsWebpage.serverDone"}
              /\ e.r.kind = "onTranslate" /\ e.sd.id = e.r.sid /\ e.sd.url = href
           THEN <<[translatorID |-> e.r.translatorID, options |-> e.r.options,
                   url |-> href, sid |-> e.r.sid]>>
           ELSE IF e.sd = sessionDetails THEN okTranslate ELSE <<>>
    /\ pageSession' = IF e.init THEN nextId ELSE pageSession
    /\ due' = [show |-> IF e.timer
                           THEN [due.show EXCEPT ![e.r.sid] = clock + ShowDelay(e.r.tr)]
                           ELSE due.show,
               report |-> [due.report EXCEPT ![p] = IF e.r.pc = "delay500"
                                                       THEN clock + ReportDelay
                                                       ELSE 0]]
    /\ UNCHANGED <<translators, href, env, detecting, frames, clock>>

\* Invocations are numbered in the order they are called.
NextToCall(p) ==
    /\ proc[p].pc = "idle"
    /\ \A q \in Procs : q < p => proc[q].pc # "idle"

\* ----------------------------------------------------------- saveAsWebpage
ShowAndProgress(sessionID) ==
    << Msg("progressWindow.show", sessionID, ""),
       Msg("progressWindow.itemProgress", sessionID, "item") >>

\* saveAsWebpage's default parameter, snapshot: saveSnapshot = true
SaveSnapshotParam(snapshot) ==
    IF snapshot = Undef THEN TRUE ELSE snapshot = "true"

\* A faulty MissingSessionID: an undefined sessionID is let through.
MissingSessionIDNever(sessionID) == FALSE

\* if (!sessionID) throw ...
MissingSessionID(sessionID) == sessionID = 0

\* saveAsWebpage({sessionID, snapshot}) from its call to its first await, in
\* an invocation with locals r, after the caller has sent `prefix` in the
\* same step and left this.sessionDetails = sd.
SaveAsWebpageEnter(r, sd, sessionID, snapshot, prefix) ==
    LET r1 == [r EXCEPT !.sid = sessionID, !.snap = SaveSnapshotParam(snapshot)]
    IN  IF MissingSessionID(sessionID)
          THEN Eff("saveAsWebpage.noSessionID",
                   [r1 EXCEPT !.pc = "rejected", !.err = "noSessionID"], sd, prefix)
          ELSE IF env.isChromium
            THEN Eff("saveAsWebpage.enter", [r1 EXCEPT !.pc = "isIncognito"], sd, prefix)
            ELSE Eff("saveAsWebpage.enter", [r1 EXCEPT !.pc = "saveSnapshot"], sd,
                     prefix \o ShowAndProgress(sessionID))

\* The end of saveAsWebpage's try block: attachments' progress, done [true],
\* Object.assign(this.sessionDetails, {id, url, translatorID}), return result.
SaveAsWebpageFinish(r, result, prefix) ==
    Eff("saveAsWebpage.done",
        [r EXCEPT !.pc = "resolved", !.dones = @ + 1],
        [sessionDetails EXCEPT !.id = r.sid, !.url = href,
                               !.translatorID = WebpageTranslatorID(r.snap)],
        prefix
          \o (IF result = "attachments"
                THEN <<Msg("progressWindow.itemProgress", r.sid, "attachment")>>
                ELSE <<>>)
          \o <<Msg("progressWindow.done", 0, "true")>>)

\* saveAsWebpage's catch (e) up to its await or its throw.
SaveAsWebpageCatch(r, e) ==
    IF e = "status0"
      THEN IF env.contentType # "application/pdf"
             THEN Eff("saveAsWebpage.clientUnavailable",
                      [r EXCEPT !.pc = "serverSave"], sessionDetails, <<>>)
             ELSE Eff("saveAsWebpage.failed",
                      [r EXCEPT !.pc = "rejected", !.err = e, !.dones = @ + 1],
                      sessionDetails,
                      <<Msg("progressWindow.done", 0, "false clientRequired")>>)
      ELSE IF e # "notEditable"
        THEN Eff("saveAsWebpage.failed",
                 [r EXCEPT !.pc = "rejected", !.err = e, !.dones = @ + 1],
                 sessionDetails,
                 <<Msg("progressWindow.done", 0, "false unexpectedError")>>)
        ELSE Eff("saveAsWebpage.failed",
                 [r EXCEPT !.pc = "rejected", !.err = e], sessionDetails, <<>>)

\* Zotero.Connector.callMethodWithCookies("saveSnapshot", data) has settled.
SaveSnapshotEff(r, outcome) ==
    IF outcome \in ConnectorResults
      THEN LET created == << Msg("progressWindow.sessionCreated", r.sid, ""),
                             Msg("progressWindow.itemProgress", r.sid, "item 100") >>
           IN  IF env.contentType # "application/pdf" /\ outcome = "saveSingleFile"
                 THEN Eff("saveAsWebpage.saved", [r EXCEPT !.pc = "retrievePageData"],
                          sessionDetails,
                          created \o <<Msg("progressWindow.itemProgress", r.sid, "snapshot 0")>>)
                 ELSE SaveAsWebpageFinish(r, outcome, created)
      ELSE SaveAsWebpageCatch(r, outcome)

\* Zotero.SingleFile.retrievePageData() has settled; its error is swallowed.
RetrievePageDataEff(r, ok) ==
    Eff("saveAsWebpage.pageData", [r EXCEPT !.pc = "saveSingleFile"], sessionDetails,
        IF ok THEN <<>>
          ELSE <<Msg("progressWindow.itemProgress", r.sid, "snapshot false")>>)

\* Zotero.Connector.saveSingleFile(...) has settled.
SaveSingleFileEff(r, outcome) ==
    IF outcome \in ConnectorResults
      THEN SaveAsWebpageFinish(r, outcome,
               <<Msg("progressWindow.itemProgress", r.sid, "snapshot 100")>>)
      ELSE SaveAsWebpageCatch(r, outcome)

\* Client unavailable: itemSaver.saveAsWebpage() (the save to the server) has
\* settled with items, with none, or with an exception.
ServerSaveEff(r, outcome) ==
    IF outcome = "throws"
      THEN Eff("saveAsWebpage.serverFailed",
               [r EXCEPT !.pc = "rejected", !.err = "serverSave"], sessionDetails, <<>>)
      ELSE Eff("saveAsWebpage.serverDone",
               [r EXCEPT !.pc = "resolved", !.dones = @ + 1], sessionDetails,
               (IF outcome = "items"
                  THEN <<Msg("progressWindow.itemProgress", 0, "item 100")>>
                  ELSE <<>>)
                 \o <<Msg("progressWindow.done", 0, "true")>>)

\* A caller other than onTranslate / onSaveAsWebpage calls saveAsWebpage
\* with no sessionID.
SaveAsWebpageCall(p, snapshot) ==
    /\ NextToCall(p)
    /\ Apply(p, SaveAsWebpageEnter([IdleProc EXCEPT !.kind = "saveAsWebpage"],
                                   sessionDetails, 0, snapshot, <<>>))

IncognitoSettled(p) ==
    /\ proc[p].pc = "isIncognito"
    /\ Apply(p, Eff("saveAsWebpage.show", [proc[p] EXCEPT !.pc = "saveSnapshot"],
                    sessionDetails, ShowAndProgress(proc[p].sid)))

SaveSnapshotSettled(p, outcome) ==
    /\ proc[p].pc = "saveSnapshot"
    /\ Apply(p, SaveSnapshotEff(proc[p], outcome))

RetrievePageDataSettled(p, ok) ==
    /\ proc[p].pc = "retrievePageData"
    /\ Apply(p, RetrievePageDataEff(proc[p], ok))

SaveSingleFileSettled(p, outcome) ==
    /\ proc[p].pc = "saveSingleFile"
    /\ Apply(p, SaveSingleFileEff(proc[p], outcome))

ServerSaveSettled(p, outcome) ==
    /\ proc[p].pc = "serverSave"
    /\ Apply(p, ServerSaveEff(proc[p], outcome))

\* ---------------------------------------------------------- onSaveAsWebpage
\* onSaveAsWebpage([title, options]) in an invocation with locals r, once
\* checkActionToServer() has answered `result`, up to saveAsWebpage's first
\* await.
OnSaveAsWebpageEff(r, result) ==
    LET translatorID == WebpageTranslatorID(r.options.snapshot = "true")
    IN  IF ~result
          THEN Eff("onSaveAsWebpage.refused", [r EXCEPT !.pc = "resolved"],
                   sessionDetails, <<>>)
          ELSE IF ShouldReopenProgressWindow(translatorID, r.options, "null")
            THEN Eff("onSaveAsWebpage.reopen", [r EXCEPT !.pc = "resolved"], sessionDetails,
                     <<Msg("progressWindow.show", sessionDetails.id, "")>>)
            ELSE [SaveAsWebpageEnter([r EXCEPT !.started = TRUE],
                                     InitSession(translatorID, r.options),
                                     nextId, r.options.snapshot, <<>>)
                    EXCEPT !.init = TRUE, !.op = "onSaveAsWebpage.save"]

\* The code before await checkActionToServer() reads and writes nothing of
\* PageSaving, so the call is placed where checkActionToServer answers.
OnSaveAsWebpage(p, options, result) ==
    /\ NextToCall(p)
    /\ Apply(p, OnSaveAsWebpageEff(
                    [IdleProc EXCEPT !.kind = "onSaveAsWebpage", !.options = options],
                    result))

\* -------------------------------------------------------------- onTranslate
\* onTranslate(translatorID, options) in an invocation with locals r, once
\* checkActionToServer() has answered `result`, up to translateAndSave's
\* first await.
OnTranslateEff(r, result) ==
    LET translatorIndex == FindIndex(r.translatorID)
    IN  IF ~result
          THEN Eff("onTranslate.refused", [r EXCEPT !.pc = "resolved"], sessionDetails, <<>>)
          ELSE IF translatorIndex = 0
            \* translator is undefined: translator.itemType throws a TypeError
            THEN Eff("onTranslate.noTranslator",
                     [r EXCEPT !.pc = "rejected", !.err = "TypeError"], sessionDetails, <<>>)
            ELSE IF ShouldReopenProgressWindow(r.translatorID, r.options,
                                               translators[translatorIndex].itemType)
              THEN Eff("onTranslate.reopen", [r EXCEPT !.pc = "resolved"], sessionDetails,
                       <<Msg("progressWindow.show", sessionDetails.id, "")>>)
              ELSE [Eff("onTranslate.save",
                        [r EXCEPT !.pc = "translate", !.sid = nextId, !.started = TRUE,
                                  !.tr = translators[translatorIndex]],
                        InitSession(r.translatorID, r.options), <<>>)
                      EXCEPT !.init = TRUE, !.timer = TRUE]

\* The code before await checkActionToServer() reads and writes nothing of
\* PageSaving, so the call is placed where checkActionToServer answers.
OnTranslate(p, translatorID, options, result) ==
    /\ NextToCall(p)
    /\ Apply(p, OnTranslateEff(
                    [IdleProc EXCEPT !.kind = "onTranslate",
                                     !.translatorID = translatorID, !.options = options],
                    result))

\* The callback of setTimeout(..., delay) in onTranslate runs.
ShowTimerFires(s) ==
    /\ s \in timers
    /\ timers' = timers \ {s}
    /\ sent' = <<Msg("progressWindow.show", s, "null false")>>
    /\ PageStep("onTranslate.showTimer")
    /\ due' = [due EXCEPT !.show[s] = 0]
    /\ UNCHANGED <<sessionDetails, translators, href, env, nextId, detecting, proc,
                   okWebpage, okTranslate, pageSession, frames, clock>>

\* translator.itemType != 'multiple' && options.fallbackOnFailure
FallbackToWebpage(r) ==
    r.tr.itemType # "multiple" /\ r.options.fallbackOnFailure

\* onTranslate's catch (e) up to the next await.
OnTranslateCatch(r, e) ==
    IF FallbackToWebpage(r)
      THEN IF Len(translators) = 0
             \* this.translators.at(-1) is undefined: .label throws a TypeError
             THEN Eff("onTranslate.noLastTranslator",
                      [r EXCEPT !.pc = "rejected", !.err = "TypeError"], sessionDetails, <<>>)
             ELSE [SaveAsWebpageEnter(r, sessionDetails, r.sid, "true",
                                      <<Msg("progressWindow.error", 0, "fallback")>>)
                     EXCEPT !.op = "onTranslate.fallback"]
      ELSE Eff("onTranslate.failed", [r EXCEPT !.pc = "delay500", !.err = e],
               EmptySession, <<>>)

\* translateAndSave up to itemSaver.saveItems: _initTranslate,
\* TranslateWeb.translate and getProxy have settled.
TranslateEff(r, outcome) ==
    IF outcome = "ok"
      THEN Eff("translateAndSave.translated", [r EXCEPT !.pc = "saveItems"],
               sessionDetails, <<>>)
      ELSE OnTranslateCatch(r, outcome)

TranslateSettled(p, outcome) ==
    /\ proc[p].pc = "translate"
    /\ Apply(p, TranslateEff(proc[p], outcome))

\* ----------------------------------------------------------------- onSelect
\* The translator asks for item selection: onSelect(obj, items, callback) up
\* to its await.
OnSelectEff(r) ==
    Eff("onSelect.close", [r EXCEPT !.pc = "getSelectedCollection"], sessionDetails,
        <<Msg("progressWindow.close", 0, "")>>)

\* Translators whose detected itemType is 'multiple' are the ones that ask
\* for a selection while they translate; they may ask more than once.
OnSelect(p) ==
    /\ proc[p].pc = "translate"
    /\ proc[p].tr.itemType = "multiple"
    /\ Apply(p, OnSelectEff(proc[p]))

\* The request for the Select Items dialog.
SelectDialogRequest ==
    Call(IF env.isSafari THEN "Inject.onSafariSelect" ELSE "Connector_Browser.onSelect",
         <<>>)

\* Zotero.Connector.callMethod("getSelectedCollection") has settled.
GetSelectedCollectionEff(r, response) ==
    IF response = "notEditable"
      THEN Eff("onSelect.notEditable", [r EXCEPT !.pc = "translate"], sessionDetails,
               <<Callback("empty")>>)
      ELSE Eff("onSelect.dialog", [r EXCEPT !.pc = "selectItems"], sessionDetails,
               <<SelectDialogRequest>>)

GetSelectedCollectionSettled(p, response) ==
    /\ proc[p].pc = "getSelectedCollection"
    /\ Apply(p, GetSelectedCollectionEff(proc[p], response))

\* A faulty ItemsWereSelected: an empty selection counts as a selection.
ItemsWereReturned(returnItems) == returnItems # "cancelled"

\* if (returnItems && !Zotero.Utilities.isEmpty(returnItems))
ItemsWereSelected(returnItems) == returnItems = "some"

\* The Select Items dialog has returned: the popup is reopened if items were
\* selected, and the selection goes to the callback.
SelectItemsEff(r, returnItems) ==
    IF ItemsWereSelected(returnItems)
      THEN Eff("onSelect.selected", [r EXCEPT !.pc = "translate"], sessionDetails,
               << Msg("progressWindow.show", sessionDetails.id, ""),
                  Callback(returnItems) >>)
      ELSE Eff("onSelect.none", [r EXCEPT !.pc = "translate"], sessionDetails,
               <<Callback(returnItems)>>)

SelectItemsSettled(p, returnItems) ==
    /\ proc[p].pc = "selectItems"
    /\ Apply(p, SelectItemsEff(proc[p], returnItems))

\* itemSaver.saveItems has settled; onTranslate sends done [true] and returns.
SaveItemsEff(r, outcome) ==
    IF outcome = "ok"
      THEN Eff("onTranslate.done", [r EXCEPT !.pc = "resolved", !.dones = @ + 1],
               sessionDetails, <<Msg("progressWindow.done", 0, "true")>>)
      ELSE OnTranslateCatch(r, outcome)

SaveItemsSettled(p, outcome) ==
    /\ proc[p].pc = "saveItems"
    /\ Apply(p, SaveItemsEff(proc[p], outcome))

\* The status code onTranslate reads from the error message decides the report.
DoneFalseInfo(translator, e) ==
    IF (translator.translatorID \in SITE_ACCESS_LIMIT_TRANSLATORS /\ e = "403")
        \/ e = "429"
      THEN "false siteAccessLimits"
      ELSE "false"

\* onTranslate after await Zotero.Promise.delay(500): it reports the failure.
ReportFailure(p) ==
    /\ proc[p].pc = "delay500"
    /\ Apply(p, Eff("onTranslate.reportedFailure",
                    [proc[p] EXCEPT !.pc = "resolved", !.dones = @ + 1], sessionDetails,
                    <<Msg("progressWindow.done", 0, DoneFalseInfo(proc[p].tr, proc[p].err))>>))

\* Zotero.Promise.delay(500) has elapsed.  Where the clock does not run, the
\* order of the two timers is taken from TimedSpec: the timer of the delayed
\* show was set earlier and for at most 100 ms, so its callback has run by now.
Delay500Elapsed(p) ==
    /\ proc[p].sid \notin timers
    /\ ReportFailure(p)

\* ------------------------------------------------------------------ timers
\* The timers that have expired and whose callbacks have not run yet.
ExpiredShows == {s \in timers : due.show[s] <= clock}
ExpiredReports == {p \in Procs : proc[p].pc = "delay500" /\ due.report[p] <= clock}

\* Time passes while a timer is pending.  The event loop runs the callback of
\* an expired timer before later ones expire.
Tick ==
    /\ clock < MaxClock
    /\ timers # {} \/ \E p \in Procs : proc[p].pc = "delay500"
    /\ ExpiredShows = {} /\ ExpiredReports = {}
    /\ clock' = clock + 1
    /\ sent' = <<>>
    /\ PageStep("tick")
    /\ UNCHANGED <<sessionDetails, translators, href, env, nextId, detecting, proc,
                   timers, okWebpage, okTranslate, pageSession, frames, due>>

\* The callback of setTimeout(..., delay) runs once the delay has passed;
\* of two expired timers the one that expires first runs first.
TimedShowTimerFires(s) ==
    /\ s \in ExpiredShows
    /\ \A p \in ExpiredReports : due.show[s] <= due.report[p]
    /\ ShowTimerFires(s)

\* Zotero.Promise.delay(500) resolves once 500 ms have passed.
TimedDelay500Elapsed(p) ==
    /\ p \in ExpiredReports
    /\ \A s \in ExpiredShows : due.report[p] <= due.show[s]
    /\ ReportFailure(p)

\* ------------------------------------------------------------- ZoteroFrame
FrameStep(op, f) ==
    /\ step' = [op |-> op, p |-> f, was |-> IdleProc]
    /\ sent' = <<>>
    /\ UNCHANGED <<sessionDetails, translators, href, env, nextId, detecting, proc,
                   timers, okWebpage, okTranslate, pageSession, clock, due>>

NextToConstruct(f) ==
    /\ frames[f].state = "unconstructed"
    /\ \A g \in Frames : g < f => frames[g].state # "unconstructed"

\* The listener _initMessaging leaves in place for messagingOptions.
InitMessaging(messagingOptions) ==
    IF messagingOptions = "with addMessageListener" THEN "given" ELSE "window"

\* The ZoteroFrame the constructor leaves behind.
ConstructedFrame(hasSrc, messagingOptions, hasBody) ==
    IF ~hasSrc
      THEN [NewFrame EXCEPT !.state = "threw"]
      ELSE IF messagingOptions = Undef
        THEN [NewFrame EXCEPT !.state = "constructed", !.iframe = TRUE,
                              !.inBody = hasBody, !.attrs = TRUE,
                              !.promise = "resolved"]
        ELSE [NewFrame EXCEPT !.state = "constructed", !.iframe = TRUE,
                              !.inBody = hasBody, !.attrs = TRUE,
                              !.promise = "pending",
                              !.listener = InitMessaging(messagingOptions)]

\* new ZoteroFrame(attributes, style, messagingOptions), in a document that
\* has a body or has none yet.
Construct(f, hasSrc, messagingOptions, hasBody) ==
    /\ NextToConstruct(f)
    /\ frames' = [frames EXCEPT ![f] =
                    [ConstructedFrame(hasSrc, messagingOptions, hasBody)
                       EXCEPT !.src = hasSrc, !.messaging = messagingOptions]]
    /\ FrameStep("ZoteroFrame", f)

\* The 'frameReady' listener: this._initializedDeferred.resolve()
FrameReadyListener(fr) ==
    [fr EXCEPT !.promise = "resolved"]

\* A faulty WindowListenerPasses: the event's source is not compared.
WindowListenerIgnoresSource(fromFrame, isArray) == isArray

\* The listener on window's message event passes an event on when it comes
\* from the frame's contentWindow and its data is an array.
WindowListenerPasses(fromFrame, isArray) == fromFrame /\ isArray

\* A message event on window, whose data (if an array) names message `name`.
WindowMessage(f, fromFrame, isArray, name) ==
    /\ frames[f].listener = "window"
    /\ fromFrame => frames[f].inBody
    /\ frames' = [frames EXCEPT ![f] =
                    [IF WindowListenerPasses(fromFrame, isArray) /\ name = "frameReady"
                       THEN FrameReadyListener(@) ELSE @
                     EXCEPT !.received = @ \/ (fromFrame /\ isArray /\ name = "frameReady")]]
    /\ FrameStep("message", f)

\* The transport given as messagingOptions.addMessageListener delivers
\* message `name`.
GivenListenerMessage(f, name) ==
    /\ frames[f].listener = "given"
    /\ frames' = [frames EXCEPT ![f] =
                    [IF name = "frameReady" THEN FrameReadyListener(@) ELSE @
                     EXCEPT !.received = @ \/ name = "frameReady"]]
    /\ FrameStep("message", f)

\* The page changes the iframe's attributes or style.
PageChangesFrame(f) ==
    /\ frames[f].state = "constructed"
    /\ frames[f].attrs
    /\ frames' = [frames EXCEPT ![f].attrs = FALSE]
    /\ FrameStep("pageChangesFrame", f)

\* The MutationObserver's callback: _setFrameAttributes(attributes, style)
ObserverRuns(f) ==
    /\ frames[f].state = "constructed"
    /\ ~frames[f].attrs
    /\ frames' = [frames EXCEPT ![f].attrs = TRUE]
    /\ FrameStep("mutationObserver", f)

\* remove()
Remove(f) ==
    /\ frames[f].state = "constructed"
    /\ frames[f].inBody
    /\ frames' = [frames EXCEPT ![f].inBody = FALSE]
    /\ FrameStep("remove", f)

FrameNext ==
    \/ \E f \in Frames, hasSrc \in BOOLEAN, m \in MessagingOptions, hasBody \in BOOLEAN :
            Construct(f, hasSrc, m, hasBody)
    \/ \E f \in Frames, fromFrame \in BOOLEAN, isArray \in BOOLEAN, name \in MessageNames :
            WindowMessage(f, fromFrame, isArray, name)
    \/ \E f \in Frames, name \in MessageNames : GivenListenerMessage(f, name)
    \/ \E f \in Frames : PageChangesFrame(f)
    \/ \E f \in Frames : ObserverRuns(f)
    \/ \E f \in Frames : Remove(f)

\* The frames alone.
FrameSpec == Init /\ [][FrameNext]_vars

Next ==
    \/ \E u \in URLs : HistoryPush(u)
    \/ \E force \in BOOLEAN : OnPageLoad(force)
    \/ \E force \in BOOLEAN, outcome \in DetectOutcomes : DetectDone(force, outcome)
    \/ \E p \in Procs, t \in TranslatorIDs, o \in TranslateOptions, result \in BOOLEAN :
            OnTranslate(p, t, o, result)
    \/ \E s \in 1..MaxProcs : ShowTimerFires(s)
    \/ \E p \in Procs, outcome \in {"ok"} \cup TranslateErrors : TranslateSettled(p, outcome)
    \/ \E p \in Procs : OnSelect(p)
    \/ \E p \in Procs, response \in SelectedCollectionResponses :
            GetSelectedCollectionSettled(p, response)
    \/ \E p \in Procs, returnItems \in SelectDialogResults :
            SelectItemsSettled(p, returnItems)
    \/ \E p \in Procs, outcome \in {"ok"} \cup TranslateErrors : SaveItemsSettled(p, outcome)
    \/ \E p \in Procs : Delay500Elapsed(p)
    \/ \E p \in Procs, o \in WebpageOptions, result \in BOOLEAN :
            OnSaveAsWebpage(p, o, result)
    \/ \E p \in Procs, snapshot \in Snapshots : SaveAsWebpageCall(p, snapshot)
    \/ \E p \in Procs : IncognitoSettled(p)
    \/ \E p \in Procs, outcome \in ConnectorResults \cup ConnectorErrors :
            SaveSnapshotSettled(p, outcome)
    \/ \E p \in Procs, ok \in BOOLEAN : RetrievePageDataSettled(p, ok)
    \/ \E p \in Procs, outcome \in ConnectorResults \cup ConnectorErrors :
            SaveSingleFileSettled(p, outcome)
    \/ \E p \in Procs, outcome \in ServerSaveOutcomes : ServerSaveSettled(p, outcome)

Spec == Init /\ [][Next]_vars

\* onTranslate with the clock running: page loads, translation and its
\* failure, and the two timers of onTranslate.
TimedNext ==
    \/ \E force \in BOOLEAN : OnPageLoad(force)
    \/ \E force \in BOOLEAN, outcome \in DetectOutcomes : DetectDone(force, outcome)
    \/ \E p \in Procs, t \in TranslatorIDs, o \in TranslateOptions, result \in BOOLEAN :
            OnTranslate(p, t, o, result)
    \/ \E p \in Procs, outcome \in {"ok"} \cup TranslateErrors : TranslateSettled(p, outcome)
    \/ \E p \in Procs, outcome \in {"ok"} \cup TranslateErrors : SaveItemsSettled(p, outcome)
    \/ \E s \in Procs : TimedShowTimerFires(s)
    \/ \E p \in Procs : TimedDelay500Elapsed(p)
    \/ Tick

TimedSpec == Init /\ [][TimedNext]_vars

\* ==================================================================== claims
\* The steps below are read from `step` (the branch taken and the locals the
\* invocation was left with) and from `proc` before the step.

\* The step is invocation p's call of entry point `kind`, up to its first
\* await after checkActionToServer.
IsCallOf(kind) ==
    /\ step'.p \in Procs
    /\ proc[step'.p].pc = "idle"
    /\ step'.was.kind = kind

\* checkActionToServer() answered true in the call that the step is.
CheckSucceeded ==
    step'.op \notin {"onTranslate.refused", "onSaveAsWebpage.refused"}

\* itemType of the cached translator with this id ("undefined" if none)
CachedItemType(translatorID) ==
    IF FindIndex(translatorID) = 0 THEN Undef
      ELSE translators[FindIndex(translatorID)].itemType

DoneMessages(msgs) ==
    {i \in 1..Len(msgs) : msgs[i].name = "progressWindow.done"}

C2_SessionClearedOnFailure ==
    ( /\ step.p \in Procs
      /\ step.was.started
      /\ \/ step.was.pc = "rejected"
         \/ \E i \in DoneMessages(sent) : sent[i].info # "true" )
    => sessionDetails.id # step.was.sid

\* C3: every onPageLoad call on a document other than about:blank empties
\* sessionDetails, whatever force and the cached translators are, and on
\* about:blank it changes nothing; the first save click after a page load
\* (no save action has started a session since) starts a new session and a
\* new save.
C3_PageLoadClearsSession ==
    [][ /\ step'.op \in {"onPageLoad", "onPageLoad.force"}
            => IF href = AboutBlank
                 THEN UNCHANGED <<sessionDetails, translators, detecting, href,
                                  proc, timers, nextId>>
                 ELSE sessionDetails' = EmptySession
        /\ ( /\ pageSession = 0
             /\ \/ IsCallOf("onTranslate")
                      /\ CachedItemType(step'.was.translatorID) # Undef
                \/ IsCallOf("onSaveAsWebpage")
             /\ CheckSucceeded )
            => /\ step'.was.started
               /\ sessionDetails'.id = nextId
               /\ nextId' = nextId + 1
      ]_vars

\* C4 (as stated): onPageLoad without force, when the cached list is
\* non-empty, runs no detection, notifies nobody and leaves the list
\* unchanged; onPageLoad with force discards the list, runs detection, and
\* when detection has settled stores the detected translators as the list
\* and notifies the background page with them.
C4_CachedUntilForcedRefresh ==
    [][ /\ (step'.op = "onPageLoad" /\ Len(translators) > 0)
            => /\ detecting' = detecting
               /\ sent' = <<>>
               /\ translators' = translators
        /\ step'.op = "onPageLoad.force"
            => /\ translators' = <<>>
               /\ detecting'.forced = detecting.forced + 1
        /\ detecting'.forced < detecting.forced
            => sent' = <<Call("Connector_Browser.onTranslators", translators')>>
      ]_vars

\* C4 (amended): as C4, except that on about:blank onPageLoad does nothing,
\* that a detection which throws leaves the list as it is and notifies
\* nobody, and that in a Safari frame showing a PDF a detection which finds
\* no translator calls onPDFFrame and leaves the list as it is.
C4_CachedUntilForcedRefreshAmended ==
    [][ /\ (step'.op = "onPageLoad" /\ Len(translators) > 0)
            => /\ detecting' = detecting
               /\ sent' = <<>>
               /\ translators' = translators
        /\ step'.op = "onPageLoad.force"
            => IF href = AboutBlank
                 THEN /\ translators' = translators
                      /\ detecting' = detecting
                      /\ sent' = <<>>
                 ELSE /\ translators' = <<>>
                      /\ detecting'.forced = detecting.forced + 1
        /\ detecting'.forced < detecting.forced
            => \/ /\ step'.op = "onPageLoad.detected"
                  /\ sent' = <<Call("Connector_Browser.onTranslators", translators')>>
               \/ /\ step'.op = "onPageLoad.threw"
                  /\ sent' = <<>>
                  /\ translators' = translators
               \/ /\ step'.op = "onPageLoad.pdfFrame"
                  /\ env.isSafari /\ ~env.isTopWindow
                  /\ env.contentType = "application/pdf"
                  /\ sent' = <<Call("Connector_Browser.onPDFFrame", <<>>)>>
                  /\ translators' = translators
      ]_vars

\* C4 witness: an onPageLoad without force has just returned on finding the
\* list cached (no detection is running, nothing was sent, the list is
\* there), after a save had started a session on the page.
C4_Witness ==
    /\ step.op = "onPageLoad"
    /\ translators # <<>>
    /\ detecting.forced = 0 /\ detecting.plain = 0
    /\ sent = <<>>
    /\ sessionDetails = EmptySession
    /\ nextId > 1

\* C5: sessionDetails is empty or holds the session of the save action that
\* was started last since the page was loaded: a save that ends later neither
\* overwrites nor clears the session of a save started after it, nor
\* re-creates a session that a page load has cleared.
C5_OneSessionPerPage ==
    sessionDetails.id = 0 \/ sessionDetails.id = pageSession

\* C6: after an onSaveAsWebpage has completed successfully, a second
\* onSaveAsWebpage with the same options on the same URL (no note, no resave,
\* no page load in between) only sends progressWindow.show with the existing
\* session id and creates no session, whatever options.snapshot is.
C6_SecondSaveAsWebpageReopens ==
    [][ ( /\ okWebpage # <<>>
          /\ IsCallOf("onSaveAsWebpage") /\ CheckSucceeded
          /\ step'.was.options = okWebpage[1].options
          /\ href = okWebpage[1].url
          /\ ~step'.was.options.note /\ ~step'.was.options.resave )
        => /\ sent' = <<Msg("progressWindow.show", sessionDetails.id, "")>>
           /\ sessionDetails' = sessionDetails
           /\ nextId' = nextId
           /\ step'.was.pc = "resolved"
      ]_vars

\* C7: saveAsWebpage called without a sessionID throws 'Trying to save as
\* webpage without session ID' having sent no message, called no connector
\* method and left sessionDetails as it was.
C7_NoSessionIDThrowsFirst ==
    [][ IsCallOf("saveAsWebpage")
        => /\ step'.was.pc = "rejected"
           /\ step'.was.err = "noSessionID"
           /\ sent' = <<>>
           /\ sessionDetails' = sessionDetails
           /\ proc'[step'.p].pc = "settled"
           /\ UNCHANGED <<nextId, timers, translators>>
      ]_vars

\* C7 witness: a saveAsWebpage call without sessionID has just thrown.
C7_Witness ==
    /\ step.op = "saveAsWebpage.noSessionID"
    /\ step.was.kind = "saveAsWebpage"
    /\ step.was.pc = "rejected"
    /\ sent = <<>>

\* C8: a ZoteroFrame constructed without src threw and created no iframe;
\* one constructed without messagingOptions has initializedPromise resolved;
\* one constructed with messagingOptions has it pending until a 'frameReady'
\* message of the frame has been received, and resolved from then on.
C8_InitializedPromise ==
    \A f \in Frames :
        LET fr == frames[f]
        IN  fr.state # "unconstructed"
            => IF ~fr.src
                 THEN fr.state = "threw" /\ ~fr.iframe /\ fr.promise = "none"
                 ELSE /\ fr.state = "constructed" /\ fr.iframe
                      /\ IF fr.messaging = Undef
                           THEN fr.promise = "resolved"
                           ELSE fr.promise = (IF fr.received THEN "resolved"
                                                ELSE "pending")

\* C8 witness: a frame constructed with messagingOptions that listens on
\* window has got other messages and then its frame's 'frameReady', and its
\* initializedPromise is resolved; another frame is still waiting.
C8_Witness ==
    \E f, g \in Frames :
        /\ frames[f].messaging = "sendMessage only"
        /\ frames[f].received
        /\ frames[f].promise = "resolved"
        /\ frames[g].messaging # Undef
        /\ frames[g].src
        /\ frames[g].promise = "pending"

C10_ExactlyOneDone ==
    ( /\ step.p \in Procs
      /\ step.was.started
      /\ IsSettled(step.was) )
    => step.was.dones = 1

\* C11: when onTranslate sends its failure report progressWindow.done
\* [false, ...] after the 500 ms delay, the delayed progressWindow.show of the
\* same save (delayed by 0 ms, or 100 ms for a 'multiple' translator) has
\* already been sent: its timer is no longer pending.
C11_ShowBeforeFailureReport ==
    [][ (step'.p \in Procs /\ step'.op = "onTranslate.reportedFailure")
        => /\ step'.was.sid \notin timers
           /\ step'.was.sid \notin timers'
           /\ clock >= ReportDelay
           /\ DoneMessages(sent') = {1}
           /\ sent'[1].info # "true"
      ]_vars

\* C11 witness: the save of a 'multiple' translator has failed and, 500 ms
\* later, onTranslate has just sent the failure report.
C11_Witness ==
    /\ step.op = "onTranslate.reportedFailure"
    /\ step.was.tr.itemType = "multiple"
    /\ step.was.sid \notin timers
    /\ clock >= ReportDelay
    /\ DoneMessages(sent) = {1}

\* The callbacks and dialog requests among the messages of a step.
CallbacksIn(msgs) == {i \in 1..Len(msgs) : msgs[i].name = "onSelect callback"}
ShowsIn(msgs) == {i \in 1..Len(msgs) : msgs[i].name = "progressWindow.show"}
DialogRequestsIn(msgs) == {i \in 1..Len(msgs) : msgs[i] = SelectDialogRequest}

\* C12: in onSelect, progressWindow.close is sent before the Select Items
\* dialog is requested; if getSelectedCollection reports libraryEditable ===
\* false the callback receives an empty selection and the dialog is not
\* requested; if at least one item is selected, progressWindow.show is sent
\* before the callback receives the selection; if the selection is empty or
\* cancelled, onSelect sends no progressWindow.show.
C12_SelectItemsOrder ==
    [][ step'.p \in Procs
        => LET p == step'.p
               before == proc[p].pc
           IN  \* onSelect is entered by sending close, and nothing else
               /\ (proc'[p].pc = "getSelectedCollection" /\ before # "getSelectedCollection")
                    => /\ before = "translate"
                       /\ sent' = <<Msg("progressWindow.close", 0, "")>>
               \* the dialog is requested only after that, by the step that
               \* follows getSelectedCollection
               /\ DialogRequestsIn(sent') # {}
                    => /\ before = "getSelectedCollection"
                       /\ step'.op # "onSelect.notEditable"
                       /\ sent' = <<SelectDialogRequest>>
               /\ before = "getSelectedCollection"
                    => IF step'.op = "onSelect.notEditable"
                         THEN /\ sent' = <<Callback("empty")>>
                              /\ proc'[p].pc = "translate"
                         ELSE /\ CallbacksIn(sent') = {}
                              /\ proc'[p].pc = "selectItems"
               /\ before = "selectItems"
                    => /\ CallbacksIn(sent') = {Len(sent')}
                       /\ IF sent'[Len(sent')].info = "some"
                            THEN /\ Len(sent') = 2
                                 /\ ShowsIn(sent') = {1}
                            ELSE /\ Len(sent') = 1
                                 /\ step'.op = "onSelect.none"
      ]_vars

\* C12 witness: items were selected in the dialog, and onSelect has sent
\* progressWindow.show and then handed the selection to the callback.
C12_Witness ==
    /\ step.op = "onSelect.selected"
    /\ step.was.tr.itemType = "multiple"
    /\ sent = <<Msg("progressWindow.show", step.was.sid, ""), Callback("some")>>

\* C13: every progressWindow.show and progressWindow.itemProgress message
\* that a save sends carries the session id created by _initSession for that
\* save, whatever page load or other save action happened meanwhile.
C13_MessagesCarrySessionID ==
    ( /\ step.p \in Procs
      /\ step.was.started )
    => \A i \in 1..Len(sent) :
          sent[i].name \in {"progressWindow.show", "progressWindow.itemProgress"}
              => sent[i].sid = step.was.sid

\* C14: after onTranslate(T, options) has completed successfully for a
\* non-'multiple' translator T without note or resave, by translation or by
\* the Save-as-Webpage fallback, a second onTranslate(T, options) on the same
\* URL with no page load in between only sends progressWindow.show with the
\* same session id, and neither translates nor saves again.
C14_SecondTranslateReopens ==
    [][ ( /\ okTranslate # <<>>
          /\ IsCallOf("onTranslate") /\ CheckSucceeded
          /\ step'.was.translatorID = okTranslate[1].translatorID
          /\ step'.was.options = okTranslate[1].options
          /\ href = okTranslate[1].url
          /\ CachedItemType(step'.was.translatorID) \notin {Undef, "multiple"}
          /\ ~step'.was.options.note /\ ~step'.was.options.resave )
        => /\ sent' = <<Msg("progressWindow.show", okTranslate[1].sid, "")>>
           /\ sessionDetails' = sessionDetails
           /\ nextId' = nextId
           /\ step'.was.pc = "resolved"
           /\ ~step'.was.started
      ]_vars
====
